---- MODULE Spec2Model ----
(***************************************************************************)
(* Model of PromptImageMatcher (src/app.py) and of the "Match & Prepare     *)
(* Rename" button handler that drives it.                                   *)
(*                                                                          *)
(* A Python str is a sequence of one-character strings.  The characters     *)
(* used are ASCII letters, digits, "_", "-", ".", " " and "/"; no string    *)
(* holds a newline (prompts are stripped lines, uploads are file names),    *)
(* so the regex anchor "$" means "end of the string".  Strings are shorter  *)
(* than 200 characters, so difflib's autojunk heuristic is inactive.        *)
(* A similarity score is the exact fraction <<num, den>>; the threshold is  *)
(* a number of hundredths (the slider moves in steps of 0.05).  Two scores  *)
(* of strings this short compare as floats exactly as their fractions do.   *)
(* A match entry keeps prompt_number, prompt, original_filename and         *)
(* new_filename; file_data and the rounded scores shown to the user are     *)
(* left out, no property here reads them.                                   *)
(***************************************************************************)
EXTENDS Integers, Sequences, FiniteSets, TLC

\* ------------------------------------------------------------------------
\* Characters
\* ------------------------------------------------------------------------

LowerSeq ==
    <<"a","b","c","d","e","f","g","h","i","j","k","l","m",
      "n","o","p","q","r","s","t","u","v","w","x","y","z">>

UpperSeq ==
    <<"A","B","C","D","E","F","G","H","I","J","K","L","M",
      "N","O","P","Q","R","S","T","U","V","W","X","Y","Z">>

DigitSeq == <<"0","1","2","3","4","5","6","7","8","9">>

Range(f) == { f[k] : k \in DOMAIN f }

LowerSet == Range(LowerSeq)

UpperSet == Range(UpperSeq)

DigitSet == Range(DigitSeq)

\* [a-zA-Z0-9]
AlnumSet == LowerSet \cup UpperSet \cup DigitSet

\* [a-f0-9] under re.IGNORECASE
HexSet == {"a","b","c","d","e","f","A","B","C","D","E","F"} \cup DigitSet

\* \s and the characters str.strip() removes
SpaceSet == {" "}

\* [<>:"/\|?*], the characters replaced in a new file name
InvalidSet == {"<", ">", ":", "\"", "/", "\\", "|", "?", "*"}

\* str.lower() on one character
LowerChar(c) ==
    IF c \in UpperSet
    THEN LowerSeq[CHOOSE k \in DOMAIN UpperSeq : UpperSeq[k] = c]
    ELSE c

\* str.lower()
Lower(s) == [k \in DOMAIN s |-> LowerChar(s[k])]

\* s[i:] with a 1-based first position
From(s, i) == SubSeq(s, i, Len(s))

\* the length of the maximal run of characters of class cls starting at i
RECURSIVE RunLen(_, _, _)
RunLen(s, i, cls) ==
    IF i > Len(s) \/ s[i] \notin cls THEN 0 ELSE 1 + RunLen(s, i + 1, cls)

\* the length of the maximal run of characters of class cls ending at i
RECURSIVE RunLenBack(_, _, _)
RunLenBack(s, i, cls) ==
    IF i < 1 \/ s[i] \notin cls THEN 0 ELSE 1 + RunLenBack(s, i - 1, cls)

\* str.strip(chars)
Strip(s, cls) ==
    LET lead  == RunLen(s, 1, cls)
        trail == RunLenBack(s, Len(s), cls)
    IN  IF lead = Len(s) THEN <<>> ELSE SubSeq(s, lead + 1, Len(s) - trail)

\* ------------------------------------------------------------------------
\* clean_text, one operator per statement
\* ------------------------------------------------------------------------

\* the hex group sizes of the UUID pattern
UuidGroups == <<8, 4, 4, 4, 12>>

\* The position just after a match of the UUID pattern's groups g.. at pos,
\* or 0 when there is none.  The separator [-_]? is tried first present and
\* then absent, as the regex engine backtracks.
RECURSIVE UuidEnd(_, _, _)
UuidEnd(s, pos, g) ==
    LET n == UuidGroups[g]
        p == pos + n
    IN  IF RunLen(s, pos, HexSet) < n THEN 0
        ELSE IF g = Len(UuidGroups) THEN p
        ELSE LET withSep == IF p <= Len(s) /\ s[p] \in {"-", "_"}
                            THEN UuidEnd(s, p + 1, g + 1) ELSE 0
             IN  IF withSep # 0 THEN withSep ELSE UuidEnd(s, p, g + 1)

\* re.sub(UUID pattern, '', text, flags=re.IGNORECASE)
RECURSIVE RemoveUuidFrom(_, _)
RemoveUuidFrom(s, i) ==
    IF i > Len(s) THEN <<>>
    ELSE LET e == UuidEnd(s, i, 1)
         IN  IF e # 0 THEN RemoveUuidFrom(s, e)
             ELSE <<s[i]>> \o RemoveUuidFrom(s, i + 1)

RemoveUuid(s) == RemoveUuidFrom(s, 1)

\* the least length of a hex run that is removed: [a-f0-9]{6,}
MinHexRun == 6

\* re.sub(r'[a-f0-9]{6,}', '', text, flags=re.IGNORECASE)
RECURSIVE RemoveHexFrom(_, _)
RemoveHexFrom(s, i) ==
    IF i > Len(s) THEN <<>>
    ELSE LET n == RunLen(s, i, HexSet)
         IN  IF n >= MinHexRun THEN RemoveHexFrom(s, i + n)
             ELSE <<s[i]>> \o RemoveHexFrom(s, i + 1)

RemoveHex(s) == RemoveHexFrom(s, 1)

ImageExts ==
    { <<"p","n","g">>, <<"j","p","g">>, <<"j","p","e","g">>,
      <<"g","i","f">>, <<"w","e","b","p">> }

\* re.sub(r'\.(png|jpg|jpeg|gif|webp)$', '', text, flags=re.IGNORECASE)
RemoveExt(s) ==
    LET hits == { e \in ImageExts :
                    /\ Len(s) >= Len(e) + 1
                    /\ s[Len(s) - Len(e)] = "."
                    /\ Lower(From(s, Len(s) - Len(e) + 1)) = e }
    IN  IF hits = {} THEN s
        ELSE LET e == CHOOSE x \in hits : TRUE
             IN  SubSeq(s, 1, Len(s) - Len(e) - 1)

\* re.sub(r'^[a-zA-Z0-9]+_', '', text)
RemovePrefix(s) ==
    LET n == RunLen(s, 1, AlnumSet)
    IN  IF n >= 1 /\ n < Len(s) /\ s[n + 1] = "_" THEN From(s, n + 2) ELSE s

\* re.sub(r'_+\d*$', '', text)
RemoveTrailing(s) ==
    LET d == RunLenBack(s, Len(s), DigitSet)
        u == RunLenBack(s, Len(s) - d, {"_"})
    IN  IF u >= 1 THEN SubSeq(s, 1, Len(s) - d - u) ELSE s

\* re.sub(r'_{2,}', '_', text)
RECURSIVE CollapseFrom(_, _)
CollapseFrom(s, i) ==
    IF i > Len(s) THEN <<>>
    ELSE LET n == RunLen(s, i, {"_"})
         IN  IF n >= 2 THEN <<"_">> \o CollapseFrom(s, i + n)
             ELSE <<s[i]>> \o CollapseFrom(s, i + 1)

Collapse(s) == CollapseFrom(s, 1)

clean_text(text) ==
    Lower(Strip(Collapse(RemoveTrailing(RemovePrefix(
        RemoveExt(RemoveHex(RemoveUuid(text)))))), {"_"}))

\* os.path.splitext(filename)[0]
splitext(p) ==
    LET seps     == { k \in DOMAIN p : p[k] = "/" }
        dots     == { k \in DOMAIN p : p[k] = "." }
        sepIndex == IF seps = {} THEN 0 ELSE CHOOSE k \in seps : \A m \in seps : m <= k
        dotIndex == IF dots = {} THEN 0 ELSE CHOOSE k \in dots : \A m \in dots : m <= k
    IN  IF dotIndex > sepIndex /\ \E k \in (sepIndex + 1)..(dotIndex - 1) : p[k] # "."
        THEN SubSeq(p, 1, dotIndex - 1)
        ELSE p

extract_prompt_from_filename(filename) == clean_text(splitext(filename))

\* ------------------------------------------------------------------------
\* calculate_similarity: difflib.SequenceMatcher(None, str1, str2).ratio()
\* ------------------------------------------------------------------------

\* needle in hay
Contains(hay, needle) ==
    \E k \in 0..(Len(hay) - Len(needle)) :
        SubSeq(hay, k + 1, k + Len(needle)) = needle

\* the length of the common run of a from i and b from j, inside a[..ahi], b[..bhi]
RECURSIVE CommonRun(_, _, _, _, _, _)
CommonRun(a, b, i, j, ahi, bhi) ==
    IF i > ahi \/ j > bhi \/ a[i] # b[j] THEN 0
    ELSE 1 + CommonRun(a, b, i + 1, j + 1, ahi, bhi)

\* SequenceMatcher.find_longest_match on a[alo..ahi], b[blo..bhi] (1-based,
\* inclusive): <<i, j, k>>, the longest common block; of several, the one
\* starting earliest in a and then earliest in b; k = 0 when there is none.
find_longest_match(a, b, alo, ahi, blo, bhi) ==
    LET starts == { ij \in (alo..ahi) \X (blo..bhi) :
                      /\ a[ij[1]] = b[ij[2]]
                      /\ \/ ij[1] = alo
                         \/ ij[2] = blo
                         \/ a[ij[1] - 1] # b[ij[2] - 1] }
        blocks == { <<ij[1], ij[2], CommonRun(a, b, ij[1], ij[2], ahi, bhi)>> :
                      ij \in starts }
        Better(x, y) ==
            \/ x[3] > y[3]
            \/ x[3] = y[3] /\ x[1] < y[1]
            \/ x[3] = y[3] /\ x[1] = y[1] /\ x[2] <= y[2]
    IN  IF blocks = {} THEN <<alo, blo, 0>>
        ELSE CHOOSE x \in blocks : \A y \in blocks : Better(x, y)

\* the total size of SequenceMatcher.get_matching_blocks()
RECURSIVE BlocksSize(_, _, _, _, _, _)
BlocksSize(a, b, alo, ahi, blo, bhi) ==
    IF alo > ahi \/ blo > bhi THEN 0
    ELSE LET m == find_longest_match(a, b, alo, ahi, blo, bhi)
         IN  IF m[3] = 0 THEN 0
             ELSE m[3]
                  + BlocksSize(a, b, alo, m[1] - 1, blo, m[2] - 1)
                  + BlocksSize(a, b, m[1] + m[3], ahi, m[2] + m[3], bhi)

Matches(a, b) == BlocksSize(a, b, 1, Len(a), 1, Len(b))

\* ratio(): 2.0 * matches / length, and 1.0 when both strings are empty
calculate_similarity(str1, str2) ==
    LET length == Len(str1) + Len(str2)
    IN  IF length = 0 THEN <<1, 1>> ELSE <<2 * Matches(str1, str2), length>>

\* comparisons of scores
ScoreGt(x, y) == x[1] * y[2] > y[1] * x[2]

ScoreEq(x, y) == x[1] * y[2] = y[1] * x[2]

\* score >= threshold, the threshold in hundredths
ScoreGeThreshold(x, th) == x[1] * 100 >= th * x[2]

\* ------------------------------------------------------------------------
\* find_best_match
\* ------------------------------------------------------------------------

\* Optional[str]
None == <<>>

Some(x) == <<x>>

\* the truth value of an Optional[str]: None and "" are false
Truthy(m) == m # None /\ m[1] # <<>>

\* the test of line 43
IsContainment(cleaned_prompt, cleaned_filename) ==
    \/ Contains(cleaned_filename, cleaned_prompt)
    \/ Contains(cleaned_prompt, cleaned_filename)

\* a loop without the test of line 43: every file is scored by similarity
RECURSIVE BestMatchLoop_Fuzzy(_, _, _, _, _, _)
BestMatchLoop_Fuzzy(cleaned_prompt, filenames, k, best_match, best_score, th) ==
    IF k > Len(filenames)
    THEN IF ScoreGeThreshold(best_score, th)
         THEN [match |-> best_match, score |-> best_score]
         ELSE [match |-> None, score |-> best_score]
    ELSE LET filename         == filenames[k]
             cleaned_filename == extract_prompt_from_filename(filename)
             similarity       == calculate_similarity(cleaned_prompt, cleaned_filename)
         IN  IF ScoreGt(similarity, best_score)
             THEN BestMatchLoop_Fuzzy(cleaned_prompt, filenames, k + 1,
                                      Some(filename), similarity, th)
             ELSE BestMatchLoop_Fuzzy(cleaned_prompt, filenames, k + 1,
                                      best_match, best_score, th)

\* the for loop of find_best_match from the k-th file name on, and the
\* threshold test that follows it
RECURSIVE BestMatchLoop(_, _, _, _, _, _)
BestMatchLoop(cleaned_prompt, filenames, k, best_match, best_score, th) ==
    IF k > Len(filenames)
    THEN IF ScoreGeThreshold(best_score, th)
         THEN [match |-> best_match, score |-> best_score]
         ELSE [match |-> None, score |-> best_score]
    ELSE LET filename         == filenames[k]
             cleaned_filename == extract_prompt_from_filename(filename)
             similarity       == calculate_similarity(cleaned_prompt, cleaned_filename)
         IN  IF IsContainment(cleaned_prompt, cleaned_filename)
             THEN [match |-> Some(filename), score |-> <<1, 1>>]
             ELSE IF ScoreGt(similarity, best_score)
             THEN BestMatchLoop(cleaned_prompt, filenames, k + 1,
                                Some(filename), similarity, th)
             ELSE BestMatchLoop(cleaned_prompt, filenames, k + 1,
                                best_match, best_score, th)

find_best_match(prompt, filenames, th) ==
    BestMatchLoop(clean_text(prompt), filenames, 1, None, <<0, 1>>, th)

\* ------------------------------------------------------------------------
\* match_prompts_to_images, the parts of one loop iteration
\* ------------------------------------------------------------------------

\* re.sub(r'^\d+\.\s*', '', prompt).strip()
PromptText(prompt) ==
    LET d == RunLen(prompt, 1, DigitSet)
        w == RunLen(prompt, d + 2, SpaceSet)
    IN  IF d >= 1 /\ d < Len(prompt) /\ prompt[d + 1] = "."
        THEN Strip(From(prompt, d + 2 + w), SpaceSet)
        ELSE Strip(prompt, SpaceSet)

\* the decimal digits of n
RECURSIVE Decimal(_)
Decimal(n) ==
    IF n < 10 THEN <<DigitSeq[n + 1]>>
    ELSE Decimal(n \div 10) \o <<DigitSeq[(n % 10) + 1]>>

\* the least field width of the format {i:03d}
PadWidth == 3

\* f"{i:03d}"
Format03d(n) ==
    LET d == Decimal(n)
    IN  [k \in 1..(IF Len(d) < PadWidth THEN PadWidth - Len(d) ELSE 0) |-> "0"] \o d

\* the number of characters of the prompt kept in a new file name
NameLimit == 50

\* re.sub(r'[<>:"/\\|?*]', '_', name)
Sanitize(name) == [k \in DOMAIN name |-> IF name[k] \in InvalidSet THEN "_" ELSE name[k]]

\* f"{i:03d}_{prompt_text[:50]}.png", sanitized
NewFilename(n, prompt_text) ==
    Sanitize(Format03d(n) \o <<"_">>
             \o SubSeq(prompt_text, 1, IF Len(prompt_text) < NameLimit
                                       THEN Len(prompt_text) ELSE NameLimit)
             \o <<".", "p", "n", "g">>)

\* ------------------------------------------------------------------------
\* Inputs
\* ------------------------------------------------------------------------

\* the prompts of the widgets
\* "p1"
Prompt_p1 ==
    <<"p","1">>

\* "1. cat"
Prompt_cat ==
    <<"1","."," ","c","a","t">>

\* "deadbeef"
Prompt_hex ==
    <<"d","e","a","d","b","e","e","f">>

\* " "
Line_blank ==
    <<" ">>

\* the uploaded file names
\* "x_p1_aaa.png"
File_p1 ==
    <<"x","_","p","1","_","a","a","a",".","p","n","g">>

\* "u_cat_9.png"
File_cat ==
    <<"u","_","c","a","t","_","9",".","p","n","g">>

\* "v_cats.png"
File_cats ==
    <<"v","_","c","a","t","s",".","p","n","g">>

\* "u_cot.png"
File_cot ==
    <<"u","_","c","o","t",".","p","n","g">>

\* "u_abc123ef.png"
File_id ==
    <<"u","_","a","b","c","1","2","3","e","f",".","p","n",
      "g">>

\* the inputs of the documented scenarios
\* "A cat sleeping on a window"
Prompt_window ==
    <<"A"," ","c","a","t"," ","s","l","e","e","p","i","n",
      "g"," ","o","n"," ","a"," ","w","i","n","d","o","w">>

\* "A futuristic city with flying cars"
Prompt_city ==
    <<"A"," ","f","u","t","u","r","i","s","t","i","c"," ",
      "c","i","t","y"," ","w","i","t","h"," ","f","l","y",
      "i","n","g"," ","c","a","r","s">>

\* "user9_A_futuristic_city_with_flying_cars_8ff92123.png"
File_city ==
    <<"u","s","e","r","9","_","A","_","f","u","t","u","r",
      "i","s","t","i","c","_","c","i","t","y","_","w","i",
      "t","h","_","f","l","y","i","n","g","_","c","a","r",
      "s","_","8","f","f","9","2","1","2","3",".","p","n",
      "g">>

\* "user1_A_cat_sleeping_on_a_window_abc12345.png"
File_window ==
    <<"u","s","e","r","1","_","A","_","c","a","t","_","s",
      "l","e","e","p","i","n","g","_","o","n","_","a","_",
      "w","i","n","d","o","w","_","a","b","c","1","2","3",
      "4","5",".","p","n","g">>

\* "A dragon in the sky"
Prompt_dragon ==
    <<"A"," ","d","r","a","g","o","n"," ","i","n"," ","t",
      "h","e"," ","s","k","y">>

\* "user1_A_dog_in_a_park_ffff0000.png"
File_dog ==
    <<"u","s","e","r","1","_","A","_","d","o","g","_","i",
      "n","_","a","_","p","a","r","k","_","f","f","f","f",
      "0","0","0","0",".","p","n","g">>

PromptPool == {Prompt_p1, Prompt_cat, Prompt_hex}

FilePool == {File_p1, File_cat, File_cats, File_cot, File_id}

\* the most lines of an uploaded prompts file
MaxPrompts == 2

\* the most lines typed into the text area
MaxTextLines == 1

\* the most images uploaded
MaxFiles == 2

\* all sequences over S of length at most n
SeqUpTo(S, n) == UNION { [1..k -> S] : k \in 0..n }

\* those that hold no element twice
DistinctSeqUpTo(S, n) ==
    { f \in SeqUpTo(S, n) : \A j, k \in DOMAIN f : j # k => f[j] # f[k] }

\* the positions of the slider: 0.0 to 1.0 in steps of 0.05, in hundredths
SliderStep == 5

SliderValues == { SliderStep * k : k \in 0..(100 \div SliderStep) }

\* the default position of the slider, in hundredths
DefaultThreshold == 85

\* the positions of the slider tried with the short inputs
ThresholdPool == {0, 50, DefaultThreshold, 100}

\* every order in which the elements of a finite set can be listed
Orders(S) ==
    { f \in [1..Cardinality(S) -> S] : \A x \in S : \E k \in DOMAIN f : f[k] = x }

\* ------------------------------------------------------------------------
\* State
\* ------------------------------------------------------------------------

VARIABLES
    uploaded_prompt_file,  \* None, or Some(the lines of the uploaded .txt file)
    prompt_text,           \* the text area, as its lines (text.split('\n'))
    uploaded_images,       \* the names of the uploaded images, in upload order
    similarity_threshold,  \* the slider, in hundredths
    pc,                    \* "idle", "loop", "done", "returned", "error" (the
                           \* handler has reported one) or "raised" (an
                           \* exception has ended the call)
    prompts,               \* the handler's list of prompts
    filenames,             \* list(uploaded_files.keys())
    i,                     \* the loop counter of match_prompts_to_images
    used_filenames,
    results,               \* [matches, missing, summary]
    session_results,       \* st.session_state['results']: None or Some(results)
    error,                 \* the message of st.error: "", "no_prompts", "no_images"
    invocations,           \* the number of calls of match_prompts_to_images
    last_call,             \* None, or Some(the last call of find_best_match)
    text,                  \* the argument of clean_text
    cleaned                \* clean_text applied to text: <<>>, <<once>>, <<once, twice>>

widgets == <<uploaded_prompt_file, prompt_text, uploaded_images, similarity_threshold>>

run == <<prompts, filenames, i, used_filenames, results, last_call>>

vars == <<widgets, pc, run, session_results, error, invocations, text, cleaned>>

\* the file names: a real name is not empty
available_filenames == Range(filenames)

\* a loop that offers every file again, used or not
Remaining_All == available_filenames

\* available_filenames - used_filenames (line 75)
Remaining == available_filenames \ used_filenames

\* results as match_prompts_to_images creates it (lines 58-66)
NewResults(n) ==
    [matches |-> <<>>, missing |-> <<>>,
     summary |-> [total_prompts |-> n, matched |-> 0, missing |-> 0]]

\* [line.strip() for line in lines if line.strip()]
RECURSIVE StripLines(_)
StripLines(lines) ==
    IF lines = <<>> THEN <<>>
    ELSE LET line == Strip(Head(lines), SpaceSet)
         IN  (IF line # <<>> THEN <<line>> ELSE <<>>) \o StripLines(Tail(lines))

\* the truth value of the text area: a str is false when it is empty
TextTruthy(lines) == lines # << <<>> >>

\* the prompts the handler reads (lines 185-190): the uploaded file when there
\* is one, else the text area when it is not empty
ReadPrompts ==
    IF uploaded_prompt_file # None THEN StripLines(uploaded_prompt_file[1])
    ELSE IF TextTruthy(prompt_text) THEN StripLines(prompt_text)
    ELSE <<>>

\* the keys of {img.name: img for img in uploaded_images}, in insertion order
RECURSIVE DictKeys(_, _)
DictKeys(names, seen) ==
    IF names = <<>> THEN <<>>
    ELSE IF Head(names) \in seen THEN DictKeys(Tail(names), seen)
    ELSE <<Head(names)>> \o DictKeys(Tail(names), seen \cup {Head(names)})

\* the state in which nothing has run
Idle ==
    /\ pc = "idle"
    /\ prompts = <<>>
    /\ filenames = <<>>
    /\ i = 0
    /\ used_filenames = {}
    /\ results = NewResults(0)
    /\ session_results = None
    /\ error = ""
    /\ invocations = 0
    /\ last_call = None

NoCleaning == text = <<>> /\ cleaned = <<>>

\* the prompt widgets holding the lines ls as an uploaded file
PromptsInFile(ls) ==
    /\ uploaded_prompt_file = Some(ls)
    /\ prompt_text = << <<>> >>

\* the prompt widgets holding the lines ls in the text area, with no uploaded
\* file or under an uploaded file that holds a blank line only
PromptsInText(ls) ==
    /\ uploaded_prompt_file \in {None, Some(<<Line_blank>>)}
    /\ prompt_text = (IF ls = <<>> THEN << <<>> >> ELSE ls)

Init ==
    /\ \/ \E ls \in SeqUpTo(PromptPool, MaxPrompts) : PromptsInFile(ls)
       \/ \E ls \in SeqUpTo(PromptPool \cup {Line_blank}, MaxTextLines) : PromptsInText(ls)
    /\ uploaded_images \in DistinctSeqUpTo(FilePool, MaxFiles)
    /\ similarity_threshold \in ThresholdPool
    /\ Idle
    /\ NoCleaning

\* ------------------------------------------------------------------------
\* The button handler (lines 183-208)
\* ------------------------------------------------------------------------

\* if not prompts: st.error(...)
ClickNoPrompts ==
    /\ pc = "idle"
    /\ ReadPrompts = <<>>
    /\ pc' = "error"
    /\ error' = "no_prompts"
    /\ UNCHANGED <<widgets, run, session_results, invocations, text, cleaned>>

\* elif not uploaded_images: st.error(...)
ClickNoImages ==
    /\ pc = "idle"
    /\ ReadPrompts # <<>>
    /\ uploaded_images = <<>>
    /\ pc' = "error"
    /\ error' = "no_images"
    /\ UNCHANGED <<widgets, run, session_results, invocations, text, cleaned>>

\* a handler that matches without looking at its inputs
ClickMatch_Unchecked ==
    /\ pc = "idle"
    /\ prompts' = ReadPrompts
    /\ filenames' = DictKeys(uploaded_images, {})
    /\ results' = NewResults(Len(ReadPrompts))
    /\ used_filenames' = {}
    /\ i' = 1
    /\ invocations' = invocations + 1
    /\ pc' = "loop"
    /\ UNCHANGED <<widgets, last_call, session_results, error, text, cleaned>>

\* else: the call of match_prompts_to_images, up to its loop (lines 198-205
\* and 58-70)
ClickMatch ==
    /\ pc = "idle"
    /\ ReadPrompts # <<>>
    /\ uploaded_images # <<>>
    /\ prompts' = ReadPrompts
    /\ filenames' = DictKeys(uploaded_images, {})
    /\ results' = NewResults(Len(ReadPrompts))
    /\ used_filenames' = {}
    /\ i' = 1
    /\ invocations' = invocations + 1
    /\ pc' = "loop"
    /\ UNCHANGED <<widgets, last_call, session_results, error, text, cleaned>>

\* a loop that numbers a new file name by the count of matches so far
AddMatch_Renumbered(res, n, prompt, match) ==
    [res EXCEPT
        !.matches = Append(@, [prompt_number     |-> n,
                               prompt            |-> prompt,
                               original_filename |-> match,
                               new_filename      |->
                                   NewFilename(res.summary.matched + 1, prompt)]),
        !.summary.matched = @ + 1]

\* the body of the loop for the match found (lines 78-92)
AddMatch(res, n, prompt, match) ==
    [res EXCEPT
        !.matches = Append(@, [prompt_number     |-> n,
                               prompt            |-> prompt,
                               original_filename |-> match,
                               new_filename      |-> NewFilename(n, prompt)]),
        !.summary.matched = @ + 1]

\* a loop that counts an unmatched prompt and does not record it
AddMissing_Dropped(res, n, prompt) ==
    [res EXCEPT !.summary.missing = @ + 1]

\* the body of the loop when no match is found (lines 93-99)
AddMissing(res, n, prompt) ==
    [res EXCEPT
        !.missing = Append(@, [prompt_number |-> n, prompt |-> prompt]),
        !.summary.missing = @ + 1]

\* One iteration of the loop (lines 72-99).  list() of a set of str lists
\* it in an order that the hash seed of the process decides: any order.
\* The iteration ends the call when uploaded_files[match] raises.
LoopStep ==
    /\ pc = "loop"
    /\ i <= Len(prompts)
    /\ \E candidates \in Orders(Remaining) :
         LET prompt == PromptText(prompts[i])
             found  == find_best_match(prompt, candidates, similarity_threshold)
         IN  /\ last_call' = Some([prompt     |-> prompt,
                                   candidates |-> candidates,
                                   match      |-> found.match,
                                   score      |-> found.score])
             /\ IF ~Truthy(found.match)
                THEN /\ results' = AddMissing(results, i, prompt)
                     /\ UNCHANGED <<used_filenames, pc>>
                ELSE IF found.match[1] \in available_filenames
                THEN /\ results' = AddMatch(results, i, prompt, found.match[1])
                     /\ used_filenames' = used_filenames \cup {found.match[1]}
                     /\ UNCHANGED pc
                ELSE \* uploaded_files[match] raises KeyError
                     /\ pc' = "raised"
                     /\ UNCHANGED <<results, used_filenames>>
    /\ i' = i + 1
    /\ UNCHANGED <<widgets, prompts, filenames, session_results, error,
                   invocations, text, cleaned>>

\* return results; st.session_state['results'] = results (lines 101, 208)
Return ==
    /\ pc = "loop"
    /\ i > Len(prompts)
    /\ session_results' = Some(results)
    /\ pc' = "done"
    /\ UNCHANGED <<widgets, run, error, invocations, text, cleaned>>

Next == ClickNoPrompts \/ ClickNoImages \/ ClickMatch \/ LoopStep \/ Return

Spec == Init /\ [][Next]_vars

\* ------------------------------------------------------------------------
\* match_prompts_to_images called on its own, with any arguments
\* ------------------------------------------------------------------------

MatcherInit ==
    /\ uploaded_prompt_file = None
    /\ prompt_text = << <<>> >>
    /\ uploaded_images = <<>>
    /\ similarity_threshold \in ThresholdPool
    /\ Idle
    /\ NoCleaning

\* PromptImageMatcher(similarity_threshold).match_prompts_to_images(ps, files),
\* up to its loop (lines 58-70); fs lists the keys of files
Call ==
    /\ pc = "idle"
    /\ \E ps \in SeqUpTo(PromptPool, MaxPrompts), fs \in DistinctSeqUpTo(FilePool, MaxFiles) :
         /\ prompts' = ps
         /\ filenames' = fs
         /\ results' = NewResults(Len(ps))
    /\ used_filenames' = {}
    /\ i' = 1
    /\ invocations' = invocations + 1
    /\ pc' = "loop"
    /\ UNCHANGED <<widgets, last_call, session_results, error, text, cleaned>>

\* return results (line 101)
CallReturn ==
    /\ pc = "loop"
    /\ i > Len(prompts)
    /\ pc' = "returned"
    /\ UNCHANGED <<widgets, run, session_results, error, invocations, text, cleaned>>

MatcherNext == Call \/ LoopStep \/ CallReturn

MatcherSpec == MatcherInit /\ [][MatcherNext]_vars

\* ------------------------------------------------------------------------
\* The documented scenarios, at every position of the slider
\* ------------------------------------------------------------------------

Scenarios ==
    { [prompts |-> <<Prompt_window, Prompt_city>>, files |-> {File_city, File_window}],
      [prompts |-> <<Prompt_dragon>>,              files |-> {File_dog}],
      [prompts |-> <<Prompt_p1, Prompt_p1>>,       files |-> {File_p1}],
      [prompts |-> <<Prompt_dragon>>,              files |-> {}] }

ScenarioInit ==
    /\ \E sc \in Scenarios :
         /\ PromptsInFile(sc.prompts) \/ PromptsInText(sc.prompts)
         /\ uploaded_images \in Orders(sc.files)
    /\ similarity_threshold \in SliderValues
    /\ Idle
    /\ NoCleaning

ScenarioSpec == ScenarioInit /\ [][Next]_vars

\* ------------------------------------------------------------------------
\* clean_text on its own
\* ------------------------------------------------------------------------

\* the pieces the arguments of clean_text are made of
TokenPool ==
    { <<"u","1","_">>, <<"c","a","t">>, <<"D","o","g","_">>, <<"_">>, <<"7">>,
      <<"a","b","c","1","2","3">>, <<".","p","n","g">>, <<" ">> }

\* the most pieces in an argument
MaxTokens == 3

RECURSIVE Concat(_)
Concat(ss) == IF ss = <<>> THEN <<>> ELSE Head(ss) \o Concat(Tail(ss))

CleanInit ==
    /\ uploaded_prompt_file = None
    /\ prompt_text = << <<>> >>
    /\ uploaded_images = <<>>
    /\ similarity_threshold = DefaultThreshold
    /\ Idle
    /\ \E ts \in SeqUpTo(TokenPool, MaxTokens) : text = Concat(ts)
    /\ cleaned = <<>>

\* clean_text(text), and then clean_text of the result
Clean ==
    /\ Len(cleaned) < 2
    /\ cleaned' = Append(cleaned, clean_text(IF cleaned = <<>> THEN text ELSE cleaned[1]))
    /\ UNCHANGED <<widgets, pc, run, session_results, error, invocations, text>>

CleanSpec == CleanInit /\ [][Clean]_vars

\* ------------------------------------------------------------------------
\* Properties
\* ------------------------------------------------------------------------

\* find_best_match has been called in this run
Called == last_call # None

\* its last call: [prompt, candidates, match, score]
TheCall == last_call[1]

PromptKey(c) == clean_text(c.prompt)

FileKey(f) == extract_prompt_from_filename(f)

\* the file's key contains the prompt's key, or is contained in it
Related(c, f) ==
    \/ Contains(FileKey(f), PromptKey(c))
    \/ Contains(PromptKey(c), FileKey(f))

Similarity(c, f) == calculate_similarity(PromptKey(c), FileKey(f))

Numbers(recs) == { recs[k].prompt_number : k \in DOMAIN recs }

Ascending(recs) ==
    \A a, b \in DOMAIN recs : a < b => recs[a].prompt_number < recs[b].prompt_number

\* the last prompt the loop has dealt with was matched, to file f
MatchedTo(f) ==
    /\ results.matches # <<>>
    /\ results.matches[Len(results.matches)].prompt_number = i - 1
    /\ results.matches[Len(results.matches)].original_filename = f

\* the last prompt the loop has dealt with was recorded as missing
RecordedMissing ==
    /\ results.missing # <<>>
    /\ results.missing[Len(results.missing)].prompt_number = i - 1

\* the number a string starts with
RECURSIVE NumberOf(_, _)
NumberOf(digits, acc) ==
    IF digits = <<>> THEN acc
    ELSE NumberOf(Tail(digits),
                  10 * acc + (CHOOSE d \in 0..9 : DigitSeq[d + 1] = Head(digits)))

LeadingNumber(s) == NumberOf(SubSeq(s, 1, RunLen(s, 1, DigitSet)), 0)

\* C1: At every point of the loop and at the end, no file name is the
\* original_filename of two match entries, and no file assigned to an earlier
\* prompt is among the candidates given to find_best_match for a later one;
\* with the prompt "p1" twice and the single file "x_p1_aaa.png", the first
\* prompt gets the file and the second is reported missing.
C1_WithoutReplacement ==
    /\ \A a, b \in DOMAIN results.matches :
         a # b => results.matches[a].original_filename
                  # results.matches[b].original_filename
    /\ Called =>
         \A m \in Range(results.matches) :
            m.prompt_number < i - 1
            => m.original_filename \notin Range(TheCall.candidates)
    /\ (pc = "returned" /\ prompts = <<Prompt_p1, Prompt_p1>> /\ filenames = <<File_p1>>)
       => /\ Numbers(results.matches) = {1}
          /\ results.matches[1].original_filename = File_p1
          /\ Numbers(results.missing) = {2}

C1_Witness ==
    /\ pc = "returned"
    /\ prompts = <<Prompt_p1, Prompt_p1>>
    /\ filenames = <<File_p1>>
    /\ Len(results.matches) = 1
    /\ Len(results.missing) = 1
    /\ TheCall.candidates = <<>>

\* C2: match_prompts_to_images raises nothing and its loop ends after the
\* last prompt; every prompt the loop has dealt with has exactly one record,
\* a match entry or a missing entry; on return the two lists together are as
\* long as the prompt list, and the summary counts them, for any number of
\* files, zero included.
C2_Completeness ==
    /\ pc # "raised"
    /\ pc = "loop" => i <= Len(prompts) + 1
    /\ pc \in {"loop", "returned"} =>
         /\ Len(results.matches) + Len(results.missing) = i - 1
         /\ Numbers(results.matches) \cup Numbers(results.missing) = 1..(i - 1)
         /\ Numbers(results.matches) \cap Numbers(results.missing) = {}
         /\ Cardinality(Numbers(results.matches)) = Len(results.matches)
         /\ Cardinality(Numbers(results.missing)) = Len(results.missing)
         /\ results.summary.matched = Len(results.matches)
         /\ results.summary.missing = Len(results.missing)
         /\ results.summary.total_prompts = Len(prompts)
    /\ pc = "returned" =>
         Len(results.matches) + Len(results.missing) = Len(prompts)

C2_Witness ==
    /\ pc = "returned"
    /\ Len(prompts) = MaxPrompts
    /\ results.matches # <<>>
    /\ results.missing # <<>>

\* C3: When some candidate's key contains the prompt's key or is contained in
\* it, find_best_match returns such a candidate with score 1.0, whatever the
\* threshold, and the loop records the match.
C3_ExactMatchPriority ==
    Called =>
        LET c == TheCall
        IN  (\E f \in Range(c.candidates) : Related(c, f))
            => /\ c.match # None
               /\ Related(c, c.match[1])
               /\ c.score = <<1, 1>>
               /\ MatchedTo(c.match[1])

\* at threshold 1.0, a file that is only similar is listed before the file
\* that contains the prompt, and the latter is returned
C3_Witness ==
    /\ Called
    /\ similarity_threshold = 100
    /\ Len(TheCall.candidates) >= 2
    /\ ~Related(TheCall, TheCall.candidates[1])
    /\ ScoreGt(Similarity(TheCall, TheCall.candidates[1]), <<0, 1>>)
    /\ TheCall.match # None
    /\ TheCall.match[1] # TheCall.candidates[1]
    /\ Related(TheCall, TheCall.match[1])

\* C4: Every match or missing entry carries the 1-based position of its
\* prompt, both lists ascend strictly in prompt_number, an unmatched prompt
\* keeps its number, and a new file name starts with its prompt's number.
C4_OrderAndIndex ==
    /\ \A m \in Range(results.matches) :
         /\ m.prompt_number \in 1..Len(prompts)
         /\ m.prompt = PromptText(prompts[m.prompt_number])
         /\ LeadingNumber(m.new_filename) = m.prompt_number
    /\ \A m \in Range(results.missing) :
         /\ m.prompt_number \in 1..Len(prompts)
         /\ m.prompt = PromptText(prompts[m.prompt_number])
    /\ Ascending(results.matches)
    /\ Ascending(results.missing)
    /\ pc \in {"loop", "returned"} =>
         Numbers(results.matches) \cup Numbers(results.missing) = 1..(i - 1)

\* a prompt is matched after an unmatched one
C4_Witness ==
    /\ pc = "returned"
    /\ 1 \in Numbers(results.missing)
    /\ 2 \in Numbers(results.matches)

\* C5: clean_text(clean_text(s)) = clean_text(s) for every string s.
C5_Idempotent == Len(cleaned) = 2 => cleaned[2] = cleaned[1]

\* C6: At the default threshold, the prompts "A cat sleeping on a window" and
\* "A futuristic city with flying cars" and the two files named after them
\* give the cat file to prompt 1 and the city file to prompt 2, no prompt
\* missing and no file unused.
C6_Scenario1 ==
    (/\ pc = "done"
     /\ prompts = <<Prompt_window, Prompt_city>>
     /\ similarity_threshold = DefaultThreshold)
    => /\ Len(results.matches) = 2
       /\ results.matches[1].prompt_number = 1
       /\ results.matches[1].original_filename = File_window
       /\ results.matches[2].prompt_number = 2
       /\ results.matches[2].original_filename = File_city
       /\ results.missing = <<>>
       /\ Remaining = {}

\* C7: With no prompt, or with prompts and no image, the handler reports an
\* error and neither calls match_prompts_to_images nor stores a result; the
\* prompts are checked before the images.
C7_FailFast ==
    /\ pc = "error" =>
         /\ invocations = 0
         /\ last_call = None
         /\ session_results = None
    /\ (pc # "idle" /\ ReadPrompts = <<>>) =>
         pc = "error" /\ error = "no_prompts"
    /\ (pc # "idle" /\ ReadPrompts # <<>> /\ uploaded_images = <<>>) =>
         pc = "error" /\ error = "no_images"

\* neither prompts nor images: the error is the one about the prompts
C7_Witness ==
    /\ pc = "error"
    /\ error = "no_prompts"
    /\ uploaded_images = <<>>

\* C8: When no candidate is related to the prompt by containment, the prompt
\* is matched if and only if the greatest similarity of a candidate is at
\* least the threshold (0.0 included), the file matched has that greatest
\* similarity, and otherwise the prompt is recorded missing and no file is
\* marked used.
C8_ThresholdGating ==
    Called =>
        LET c     == TheCall
            cands == Range(c.candidates)
            best  == { f \in cands :
                         \A g \in cands : ~ScoreGt(Similarity(c, g), Similarity(c, f)) }
        IN  (cands # {} /\ \A f \in cands : ~Related(c, f))
            => IF \E f \in best : ScoreGeThreshold(Similarity(c, f), similarity_threshold)
               THEN \E f \in best : MatchedTo(f) /\ f \in used_filenames
               ELSE /\ RecordedMissing
                    /\ used_filenames \cap cands = {}

\* C9: The assignment is a function of the ordered prompts, the files in
\* upload order and the threshold: of several candidates tied for a prompt
\* (all related to it by containment, or all of the greatest similarity) the
\* one chosen is the first in upload order.  Stated for keys that are not
\* empty.
C9_DeterministicTieBreak ==
    (/\ Called
     /\ TheCall.match # None
     /\ PromptKey(TheCall) # <<>>
     /\ \A f \in Range(TheCall.candidates) : FileKey(f) # <<>>) =>
        LET c      == TheCall
            chosen == c.match[1]
            tied   == IF Related(c, chosen)
                      THEN { f \in Range(c.candidates) : Related(c, f) }
                      ELSE { f \in Range(c.candidates) :
                               ScoreEq(Similarity(c, f), c.score) }
            Pos(f) == CHOOSE k \in DOMAIN filenames : filenames[k] = f
        IN  \A f \in tied : Pos(chosen) <= Pos(f)

\* C10: find_best_match returns a file with score 1.0 only when the prompt's
\* key and the file's key are both non-empty and one contains the other; a
\* prompt or a file whose key is empty is never matched by containment.
C10_NoMatchOnEmptyKey ==
    (Called /\ TheCall.match # None /\ TheCall.score = <<1, 1>>) =>
        /\ PromptKey(TheCall) # <<>>
        /\ FileKey(TheCall.match[1]) # <<>>
        /\ Related(TheCall, TheCall.match[1])

====
